---- MODULE Spec2Model ----
(***************************************************************************)
(* Model of node-paymentbot (src/app.js): a chat bot that lets a user pay  *)
(* a fine through PayPal.  The approval callback is stateless: the         *)
(* conversation address travels inside the query string of the return URL. *)
(*                                                                         *)
(* JavaScript strings are modelled as sequences of character codes         *)
(* (ASCII), so that percent-encoding and decoding are computed character   *)
(* by character as the runtime computes them.                              *)
(***************************************************************************)
EXTENDS Integers, Sequences, FiniteSets, TLC

(***************************************************************************)
(* Bounds of the model.                                                    *)
(***************************************************************************)
\* longest serviceUrl drawn by the codec specification
MaxLen == 3
\* number of conversations talking to the bot
NumConversations == 2
\* number of listFines dialogs begun
MaxDialogs == 1
\* number of GET approvalComplete requests received
MaxRequests == 2
\* longest links array in a provider create response
MaxLinks == 2

(***************************************************************************)
(* JavaScript values that are not strings.                                 *)
(***************************************************************************)
\* the value `undefined` (a missing property of req.params)
Undefined == <<-1>>
\* the outcome "a URIError was thrown"
URIError == <<-2>>

\* the string "undefined", which JsToString(undefined) yields
UndefinedStr == <<117, 110, 100, 101, 102, 105, 110, 101, 100>>

\* JsToString applied by decodeURIComponent to its argument
JsToString(v) == IF v = Undefined THEN UndefinedStr ELSE v

(***************************************************************************)
(* Percent-encoding.                                                       *)
(***************************************************************************)
\* uppercase hexadecimal digit of n in 0..15
HexDigit(n) == IF n < 10 THEN 48 + n ELSE 55 + n

\* value of a hexadecimal digit, -1 when c is none
HexVal(c) ==
  IF c >= 48 /\ c <= 57 THEN c - 48
  ELSE IF c >= 65 /\ c <= 70 THEN c - 55
  ELSE IF c >= 97 /\ c <= 102 THEN c - 87
  ELSE -1

\* characters that encodeURIComponent and querystring.escape leave alone:
\* A-Z a-z 0-9 - _ . ! ~ * ' ( )
IsUnreserved(c) ==
  \/ (c >= 65 /\ c <= 90)
  \/ (c >= 97 /\ c <= 122)
  \/ (c >= 48 /\ c <= 57)
  \/ c \in {45, 95, 46, 33, 126, 42, 39, 40, 41}

\* the octet b written as %XY
EscapeOctet(b) == <<37, HexDigit(b \div 16), HexDigit(b % 16)>>

\* one character, escaped as its UTF-8 octets (code units below 2048)
EscapeChar(c) ==
  IF IsUnreserved(c) THEN <<c>>
  ELSE IF c < 128 THEN EscapeOctet(c)
  ELSE EscapeOctet(192 + (c \div 64)) \o EscapeOctet(128 + (c % 64))

RECURSIVE EncodeFrom(_, _)
EncodeFrom(s, i) ==
  IF i > Len(s) THEN <<>> ELSE EscapeChar(s[i]) \o EncodeFrom(s, i + 1)

\* encodeURIComponent(s)
EncodeURIComponent(s) == EncodeFrom(s, 1)

\* the octet written as %XY at position i of s, -1 when malformed
OctetAt(s, i) ==
  IF i + 2 > Len(s) \/ s[i] # 37 THEN -1
  ELSE IF HexVal(s[i + 1]) < 0 \/ HexVal(s[i + 2]) < 0 THEN -1
  ELSE 16 * HexVal(s[i + 1]) + HexVal(s[i + 2])

\* number of octets of the UTF-8 sequence led by octet b, 0 when b is no lead
Utf8Len(b) ==
  IF b < 128 THEN 1
  ELSE IF b >= 194 /\ b <= 223 THEN 2
  ELSE IF b >= 224 /\ b <= 239 THEN 3
  ELSE IF b >= 240 /\ b <= 244 THEN 4
  ELSE 0

\* TRUE when the k continuation octets after position i are all %80..%BF
RECURSIVE ContinuationsOk(_, _, _)
ContinuationsOk(s, i, k) ==
  IF k = 0 THEN TRUE
  ELSE /\ OctetAt(s, i) >= 128
       /\ OctetAt(s, i) <= 191
       /\ ContinuationsOk(s, i + 3, k - 1)

\* code point of the k continuation octets after position i, accumulated on acc
RECURSIVE CodePoint(_, _, _, _)
CodePoint(s, i, k, acc) ==
  IF k = 0 THEN acc
  ELSE CodePoint(s, i + 3, k - 1, acc * 64 + (OctetAt(s, i) - 128))

\* payload bits of a lead octet
LeadBits(b) ==
  IF b < 128 THEN b
  ELSE IF b <= 223 THEN b - 192
  ELSE IF b <= 239 THEN b - 224
  ELSE b - 240

\* smallest code point that needs n octets
MinCodePoint(n) == IF n = 2 THEN 128 ELSE IF n = 3 THEN 2048 ELSE 65536

RECURSIVE DecodeFrom(_, _)
DecodeFrom(s, i) ==
  IF i > Len(s) THEN <<>>
  ELSE IF s[i] # 37 THEN
    LET rest == DecodeFrom(s, i + 1)
    IN  IF rest = URIError THEN URIError ELSE <<s[i]>> \o rest
  ELSE
    LET b == OctetAt(s, i)
        n == IF b < 0 THEN 0 ELSE Utf8Len(b)
    IN  IF n = 0 THEN URIError
        ELSE IF ~ContinuationsOk(s, i + 3, n - 1) THEN URIError
        ELSE
          LET cp   == CodePoint(s, i + 3, n - 1, LeadBits(b))
              rest == DecodeFrom(s, i + 3 * n)
          IN  IF n > 1 /\ (cp < MinCodePoint(n) \/ cp > 1114111
                           \/ (cp >= 55296 /\ cp <= 57343)) THEN URIError
              ELSE IF rest = URIError THEN URIError
              ELSE <<cp>> \o rest

\* decodeURIComponent(v): the decoded string, or URIError when it throws
DecodeURIComponent(v) == DecodeFrom(JsToString(v), 1)

(***************************************************************************)
(* Query strings: querystring.stringify inside url.format, and the parse   *)
(* done by the restify queryParser plugin.  A query object is a sequence   *)
(* of <<key, value>> pairs in property order.  The parser splits on '&'   *)
(* and on the first '=', and decodes keys and values once, keeping the     *)
(* text of a part that is no percent-encoding; repeated and bracketed keys *)
(* do not occur in the queries of the model.                               *)
(***************************************************************************)
\* querystring.escape(s): same unreserved set as encodeURIComponent
QsEscape(s) == EncodeFrom(s, 1)

\* stringifyPrimitive(v): a string is itself, undefined is ''
StringifyPrimitive(v) == IF v = Undefined THEN <<>> ELSE v

RECURSIVE StringifyFrom(_, _)
StringifyFrom(obj, i) ==
  IF i > Len(obj) THEN <<>>
  ELSE (IF i > 1 THEN <<38>> ELSE <<>>)
       \o QsEscape(StringifyPrimitive(obj[i][1])) \o <<61>>
       \o QsEscape(StringifyPrimitive(obj[i][2]))
       \o StringifyFrom(obj, i + 1)

\* querystring.stringify(obj): k1=v1&k2=v2..., keys and values escaped
QsStringify(obj) == StringifyFrom(obj, 1)

\* index of the first c in s at or after i, Len(s) + 1 when there is none
RECURSIVE IndexOf(_, _, _)
IndexOf(s, c, i) ==
  IF i > Len(s) THEN Len(s) + 1
  ELSE IF s[i] = c THEN i
  ELSE IndexOf(s, c, i + 1)

\* str.replace(/\+/g, ' ')
PlusToSpace(s) == [i \in 1..Len(s) |-> IF s[i] = 43 THEN 32 ELSE s[i]]

\* the parser's decoder: decodeURIComponent, or the text itself when it throws
QsDecode(s) ==
  LET d == DecodeFrom(PlusToSpace(s), 1)
  IN  IF d = URIError THEN s ELSE d

\* one key=value part of a query, decoded
ParsePart(part) ==
  LET pos == IndexOf(part, 61, 1)
  IN  IF pos > Len(part) THEN <<QsDecode(part), <<>>>>
      ELSE <<QsDecode(SubSeq(part, 1, pos - 1)),
             QsDecode(SubSeq(part, pos + 1, Len(part)))>>

RECURSIVE ParseFrom(_, _)
ParseFrom(q, i) ==
  IF i > Len(q) THEN <<>>
  ELSE LET j == IndexOf(q, 38, i)
       IN  <<ParsePart(SubSeq(q, i, j - 1))>> \o ParseFrom(q, j + 1)

\* the parsed query: a sequence of <<key, value>> pairs
ParseQuery(q) == ParseFrom(q, 1)

\* obj[key] on a parsed query: the first value under key, else undefined
RECURSIVE Lookup(_, _, _)
Lookup(pairs, key, i) ==
  IF i > Len(pairs) THEN Undefined
  ELSE IF pairs[i][1] = key THEN pairs[i][2]
  ELSE Lookup(pairs, key, i + 1)

\* the part of a URL after its first '?'
QueryOf(u) == SubSeq(u, IndexOf(u, 63, 1) + 1, Len(u))

(***************************************************************************)
(* Names of the callback parameters.                                       *)
(***************************************************************************)
K_addressId == <<97, 100, 100, 114, 101, 115, 115, 73, 100>>
K_conversationId ==
  <<99, 111, 110, 118, 101, 114, 115, 97, 116, 105, 111, 110, 73, 100>>
K_userId == <<117, 115, 101, 114, 73, 100>>
K_channelId == <<99, 104, 97, 110, 110, 101, 108, 73, 100>>
K_botServiceUrl ==
  <<98, 111, 116, 83, 101, 114, 118, 105, 99, 101, 85, 114, 108>>
K_paymentId == <<112, 97, 121, 109, 101, 110, 116, 73, 100>>
K_PayerID == <<80, 97, 121, 101, 114, 73, 68>>

\* req.params of a request whose query string is q
ParamsOf(q) ==
  LET pairs == ParseQuery(q)
  IN  [paymentId      |-> Lookup(pairs, K_paymentId, 1),
       PayerID        |-> Lookup(pairs, K_PayerID, 1),
       addressId      |-> Lookup(pairs, K_addressId, 1),
       conversationId |-> Lookup(pairs, K_conversationId, 1),
       channelId      |-> Lookup(pairs, K_channelId, 1),
       userId         |-> Lookup(pairs, K_userId, 1),
       botServiceUrl  |-> Lookup(pairs, K_botServiceUrl, 1)]

(***************************************************************************)
(* State.                                                                  *)
(***************************************************************************)
VARIABLES
  configuration,  \* the exports of configuration.js, read from the environment
  dialog,         \* per conversation: position in the listFines waterfall
  begun,          \* number of listFines dialogs begun so far
  answers,        \* the answers given to the choice prompt, in order
  payments,       \* paypal.payment.create calls issued, with the closure of
                  \* their callback, in order of issue
  requests,       \* GET approvalComplete requests handled, in order of
                  \* arrival, each with its response and with the
                  \* paypal.payment.execute calls it issued
  outbox,         \* messages handed to session.send and bot.send, each tagged
                  \* with its sender and its position in the sender's output
  crashed,        \* TRUE once an uncaught exception has ended the process
  codec           \* the round trip followed by the codec specification

vars ==
  <<configuration, dialog, begun, answers, payments, requests, outbox,
    crashed, codec>>

Conversations == 1..NumConversations

\* "localhost"
Localhost == <<108, 111, 99, 97, 108, 104, 111, 115, 116>>
\* "3978", the default port as url.format prints it
DefaultPort == <<51, 57, 55, 56>>

\* the exports of configuration.js when the environment sets neither
DefaultConfiguration == [HOST |-> Localhost, PORT |-> DefaultPort]

\* the values configuration.js can export: environment unset, or HOST/PORT set
Configurations ==
  {[HOST |-> h, PORT |-> p] : h \in {Localhost, <<104>>},
                              p \in {DefaultPort, <<56, 48>>}}

\* the address of the message that conversation c sent to the bot; the
\* serviceUrl "s?y=%25&c=<c>" carries a query string and an escape of its own
AddressOf(c) ==
  [id           |-> <<109, 48 + c>>,
   channelId    |-> <<116, 48 + c>>,
   user         |-> [id |-> <<117, 48 + c>>],
   conversation |-> [id |-> <<99, 48 + c>>],
   serviceUrl   |-> <<115, 63, 121, 61, 37, 50, 53, 38, 99, 61, 48 + c>>]

\* the session object of conversation c
SessionOf(c) == [message |-> [address |-> AddressOf(c)]]

(***************************************************************************)
(* Payment Request Builder (pure).                                         *)
(***************************************************************************)
\* createPaymentJson charging the fine in another currency
createPaymentJsonEuro(returnUrl, cancelUrl) ==
  [intent        |-> "sale",
   payer         |-> [payment_method |-> "paypal"],
   redirect_urls |-> [return_url |-> returnUrl, cancel_url |-> cancelUrl],
   transactions  |-> <<
     [item_list   |-> [items |-> <<[name |-> "Fine", sku |-> "ParkingFine",
                                    price |-> "1.00", currency |-> "EUR",
                                    quantity |-> 1]>>],
      amount      |-> [currency |-> "EUR", total |-> "1.00"],
      description |-> "This is your fine. Please pay it :3"]>>]

createPaymentJson(returnUrl, cancelUrl) ==
  [intent        |-> "sale",
   payer         |-> [payment_method |-> "paypal"],
   redirect_urls |-> [return_url |-> returnUrl, cancel_url |-> cancelUrl],
   transactions  |-> <<
     [item_list   |-> [items |-> <<[name |-> "Fine", sku |-> "ParkingFine",
                                    price |-> "1.00", currency |-> "USD",
                                    quantity |-> 1]>>],
      amount      |-> [currency |-> "USD", total |-> "1.00"],
      description |-> "This is your fine. Please pay it :3"]>>]

\* executePaymentJson leaving out an empty payer id
executePaymentJsonChecked(payerId) ==
  [payer_id     |-> IF payerId = <<>> THEN Undefined ELSE payerId,
   transactions |-> <<[amount |-> [currency |-> "USD", total |-> "1.00"]]>>]

executePaymentJson(payerId) ==
  [payer_id     |-> payerId,
   transactions |-> <<[amount |-> [currency |-> "USD", total |-> "1.00"]]>>]

(***************************************************************************)
(* Correlation codec.                                                      *)
(***************************************************************************)
\* url.format(urlObject) for an object with protocol, hostname, port,
\* pathname and query
UrlFormat(urlObject) ==
  urlObject.protocol \o <<58, 47, 47>> \o urlObject.hostname \o <<58>>
    \o urlObject.port
    \o (IF urlObject.pathname # <<>> /\ urlObject.pathname[1] = 47
        THEN <<>> ELSE <<47>>)
    \o urlObject.pathname \o <<63>> \o QsStringify(urlObject.query)

\* queryObject without the encodeURIComponent pass over the serviceUrl
queryObjectPlain(address) ==
  << <<K_addressId, address.id>>,
     <<K_conversationId, address.conversation.id>>,
     <<K_userId, address.user.id>>,
     <<K_channelId, address.channelId>>,
     <<K_botServiceUrl, address.serviceUrl>> >>

\* the query object built by createReturnUrl
queryObject(address) ==
  << <<K_addressId, address.id>>,
     <<K_conversationId, address.conversation.id>>,
     <<K_userId, address.user.id>>,
     <<K_channelId, address.channelId>>,
     <<K_botServiceUrl, EncodeURIComponent(address.serviceUrl)>> >>

\* createReturnUrl(address) under the exports conf of configuration.js
createReturnUrl(conf, address) ==
  UrlFormat([protocol |-> <<104, 116, 116, 112>>,
             hostname |-> Localhost,
             port     |-> conf.PORT,
             pathname |-> <<97, 112, 112, 114, 111, 118, 97, 108, 67, 111,
                            109, 112, 108, 101, 116, 101>>,
             query    |-> queryObject(address)])

(***************************************************************************)
(* Payment orchestrator.  A function that issues provider calls is an      *)
(* operator yielding the calls it issues; a callback is an operator        *)
(* yielding the messages it sends and whether it threw.                    *)
(***************************************************************************)
\* session.send(text)
SessionSend(session, text) ==
  [via |-> "session", address |-> session.message.address, text |-> text]

\* createCallback sending a message for every link, whatever its rel
RECURSIVE createCallbackAnyRelFrom(_, _, _)
createCallbackAnyRelFrom(session, links, index) ==
  IF index > Len(links) THEN <<>>
  ELSE <<SessionSend(session,
           <<"Please pay your fine: ", links[index].href>>)>>
       \o createCallbackAnyRelFrom(session, links, index + 1)

createCallbackAnyRel(closure, error, payment) ==
  IF error THEN [threw |-> TRUE, error |-> "ProviderError", sends |-> <<>>]
  ELSE [threw |-> FALSE, error |-> "none",
        sends |-> createCallbackAnyRelFrom(closure.session, payment.links, 1)]

\* the callback createAndSendPayment passes to paypal.payment.create
RECURSIVE createCallbackFrom(_, _, _)
createCallbackFrom(session, links, index) ==
  IF index > Len(links) THEN <<>>
  ELSE (IF links[index].rel = "approval_url"
        THEN <<SessionSend(session,
                 <<"Please pay your fine: ", links[index].href>>)>>
        ELSE <<>>)
       \o createCallbackFrom(session, links, index + 1)

\* createCallback sending the approval links last entry first
createCallbackReversed(closure, error, payment) ==
  IF error THEN [threw |-> TRUE, error |-> "ProviderError", sends |-> <<>>]
  ELSE LET sends == createCallbackFrom(closure.session, payment.links, 1)
       IN  [threw |-> FALSE, error |-> "none",
            sends |-> [i \in 1..Len(sends) |-> sends[Len(sends) + 1 - i]]]

\* createCallback telling the user about the provider's error
createCallbackNotify(closure, error, payment) ==
  IF error
  THEN [threw |-> FALSE, error |-> "ProviderError",
        sends |-> <<SessionSend(closure.session, <<"Payment failed">>)>>]
  ELSE [threw |-> FALSE, error |-> "none",
        sends |-> createCallbackFrom(closure.session, payment.links, 1)]

\* error is TRUE when the provider reports an error, which the callback throws
createCallback(closure, error, payment) ==
  IF error THEN [threw |-> TRUE, error |-> "ProviderError", sends |-> <<>>]
  ELSE [threw |-> FALSE, error |-> "none",
        sends |-> createCallbackFrom(closure.session, payment.links, 1)]

\* createAndSendPayment(session): the provider calls it issues
createAndSendPayment(conf, session) ==
  LET returnUrl   == createReturnUrl(conf, session.message.address)
      paymentJson == createPaymentJson(returnUrl, "http://localhost")
  IN  <<[api       |-> "create",
         paymentId |-> Undefined,
         json      |-> paymentJson,
         closure   |-> [session |-> session]]>>

\* respondToUser naming the user after the payment instead of the userId
respondToUserNamed(payment, botServiceUrl, channelId, addressId, conversationId, userId) ==
  [via     |-> "bot",
   address |-> [channelId    |-> channelId,
                user         |-> [id |-> userId, name |-> payment.id],
                conversation |-> [id |-> conversationId],
                bot          |-> [id |-> "paybot", name |-> "paybot"],
                serviceUrl   |-> botServiceUrl,
                useAuth      |-> FALSE],
   text    |-> <<"Thanks for your payment!">>]

\* respondToUser(...): the message handed to bot.send
respondToUser(payment, botServiceUrl, channelId, addressId, conversationId, userId) ==
  [via     |-> "bot",
   address |-> [channelId    |-> channelId,
                user         |-> [id |-> userId, name |-> userId],
                conversation |-> [id |-> conversationId],
                bot          |-> [id |-> "paybot", name |-> "paybot"],
                serviceUrl   |-> botServiceUrl,
                useAuth      |-> FALSE],
   text    |-> <<"Thanks for your payment!">>]

\* executeCallback responding to the user before looking at the error
executeCallbackAlways(closure, error, payment) ==
  [threw |-> error, error |-> IF error THEN "ProviderError" ELSE "none",
   sends |-> <<respondToUser(payment, closure.botServiceUrl,
                             closure.channelId, closure.addressId,
                             closure.conversationId, closure.userId)>>]

\* the callback executePayment passes to paypal.payment.execute
executeCallback(closure, error, payment) ==
  IF error THEN [threw |-> TRUE, error |-> "ProviderError", sends |-> <<>>]
  ELSE [threw |-> FALSE, error |-> "none",
        sends |-> <<respondToUser(payment, closure.botServiceUrl,
                                  closure.channelId, closure.addressId,
                                  closure.conversationId, closure.userId)>>]

\* executePayment reading userId from the conversationId parameter
executePaymentSwapped(parameters) ==
  LET botServiceUrl == DecodeURIComponent(parameters.botServiceUrl)
  IN  IF botServiceUrl = URIError
      THEN [threw |-> TRUE, error |-> "URIError", calls |-> <<>>]
      ELSE [threw |-> FALSE, error |-> "none",
            calls |-> <<[api       |-> "execute",
                         paymentId |-> parameters.paymentId,
                         json      |-> executePaymentJson(parameters.PayerID),
                         closure   |-> [botServiceUrl  |-> botServiceUrl,
                                        channelId      |-> parameters.channelId,
                                        addressId      |-> parameters.addressId,
                                        conversationId |-> parameters.conversationId,
                                        userId         |-> parameters.conversationId]]>>]

\* executePayment(parameters): whether it threw, and the calls it issued
executePayment(parameters) ==
  LET paymentId      == parameters.paymentId
      payerId        == parameters.PayerID
      paymentJson    == executePaymentJson(payerId)
      addressId      == parameters.addressId
      conversationId == parameters.conversationId
      channelId      == parameters.channelId
      userId         == parameters.userId
      botServiceUrl  == DecodeURIComponent(parameters.botServiceUrl)
  IN  IF botServiceUrl = URIError
      THEN [threw |-> TRUE, error |-> "URIError", calls |-> <<>>]
      ELSE [threw |-> FALSE, error |-> "none",
            calls |-> <<[api       |-> "execute",
                         paymentId |-> paymentId,
                         json      |-> paymentJson,
                         closure   |-> [botServiceUrl  |-> botServiceUrl,
                                        channelId      |-> channelId,
                                        addressId      |-> addressId,
                                        conversationId |-> conversationId,
                                        userId         |-> userId]]>>]

(***************************************************************************)
(* Bookkeeping of the model: who issued a call, who sent a message.        *)
(***************************************************************************)
\* the provider calls cs as issued by the n-th prompt answer or the n-th
\* request: the answer is pending, the callback has not run
RECURSIVE Issued(_, _)
Issued(cs, n) ==
  IF cs = <<>> THEN <<>>
  ELSE <<[api |-> Head(cs).api, paymentId |-> Head(cs).paymentId,
          json |-> Head(cs).json, closure |-> Head(cs).closure,
          by |-> n, result |-> "pending", error |-> "none", links |-> <<>>]>>
       \o Issued(Tail(cs), n)

\* senders of messages: the dialog of conversation n, the callback of the
\* n-th create call, the callback of an execute call of the n-th request
DialogOf(n) == <<"dialog", n>>
CreateOf(n) == <<"create", n>>
ExecuteOf(n) == <<"execute", n>>

SentBy(by) == {m \in outbox : m.by = by}

\* the messages ms, tagged as the next output of sender by
Sent(ms, by) ==
  {[via |-> ms[i].via, address |-> ms[i].address, text |-> ms[i].text,
    by |-> by, seq |-> Cardinality(SentBy(by)) + i] : i \in 1..Len(ms)}

(***************************************************************************)
(* Dialog flow: the two steps of bot.dialog('listFines').                  *)
(***************************************************************************)
\* step 1: announce the fine and prompt for a choice
listFinesStep1(session) ==
  <<SessionSend(session, <<"You have 1 outstanding fine:">>),
    SessionSend(session, <<"Parking Fine Violation">>),
    SessionSend(session, <<"What would you like to do?", "Pay fine", "Cancel">>)>>

\* step 2 without the check for 'Cancel'
listFinesStep2Always(conf, session, results) ==
  createAndSendPayment(conf, session)

\* step 2: the provider calls issued for the prompt's result
listFinesStep2(conf, session, results) ==
  LET choice == results.response
  IN  IF choice.entity = "Cancel" THEN <<>>
      ELSE createAndSendPayment(conf, session)

\* a message arrives in conversation c: the root dialog begins listFines
ReceiveMessage(c) ==
  /\ ~crashed
  /\ dialog[c] = "idle"
  /\ begun < MaxDialogs
  /\ dialog' = [dialog EXCEPT ![c] = "prompt"]
  /\ begun' = begun + 1
  /\ outbox' = outbox \cup Sent(listFinesStep1(SessionOf(c)), DialogOf(c))
  /\ UNCHANGED <<configuration, answers, payments, requests, crashed, codec>>

\* the user of conversation c answers the choice prompt
AnswerPrompt(c, entity) ==
  /\ ~crashed
  /\ dialog[c] = "prompt"
  /\ dialog' = [dialog EXCEPT ![c] = "idle"]
  /\ answers' = Append(answers, [conversation |-> c, entity |-> entity])
  /\ payments' = payments \o
       Issued(listFinesStep2(configuration, SessionOf(c),
                             [response |-> [entity |-> entity]]),
              Len(answers) + 1)
  /\ UNCHANGED <<configuration, begun, requests, outbox, crashed, codec>>

(***************************************************************************)
(* The payment provider answers a call: the callback runs.                 *)
(***************************************************************************)
Hrefs == <<"https://pay/1", "https://pay/2", "https://pay/3", "https://pay/4">>

\* the rel of each entry of the links array of a create response
LinkLists ==
  UNION {[1..n -> {"approval_url", "self"}] : n \in 0..MaxLinks}

LinksOf(rels) == [i \in 1..Len(rels) |-> [rel |-> rels[i], href |-> Hrefs[i]]]

\* the id the provider gives the payment created by the k-th create call
PaymentIdOf(k) == <<80, 65, 89, 45, 48 + k>>

\* an exception thrown by a callback has no caller to catch it: the runtime
\* ends the process unless the server's exception handler absorbs it
Uncaught(threw) ==
  IF threw THEN crashed' \in BOOLEAN ELSE crashed' = FALSE

CreateResponds(k, error, rels) ==
  /\ ~crashed
  /\ payments[k].result = "pending"
  /\ error => rels = <<>>
  /\ LET payment == [id |-> PaymentIdOf(k), links |-> LinksOf(rels)]
         r == createCallback(payments[k].closure, error, payment)
     IN  /\ payments' =
              [payments EXCEPT ![k].result = IF error THEN "error" ELSE "ok",
                               ![k].error = r.error,
                               ![k].links = payment.links]
         /\ outbox' = outbox \cup Sent(r.sends, CreateOf(k))
         /\ Uncaught(r.threw)
  /\ UNCHANGED <<configuration, dialog, begun, answers, requests, codec>>

ExecuteResponds(j, i, error) ==
  /\ ~crashed
  /\ requests[j].calls[i].result = "pending"
  /\ LET call == requests[j].calls[i]
         payment == [id |-> call.paymentId, state |-> "approved"]
         r == executeCallback(call.closure, error, payment)
     IN  /\ requests' =
              [requests EXCEPT ![j].calls[i].result =
                                 IF error THEN "error" ELSE "ok",
                               ![j].calls[i].error = r.error,
                               ![j].events = Append(@, "callback")]
         /\ outbox' = outbox \cup Sent(r.sends, ExecuteOf(j))
         /\ Uncaught(r.threw)
  /\ UNCHANGED <<configuration, dialog, begun, answers, payments, codec>>

(***************************************************************************)
(* GET approvalComplete.                                                   *)
(***************************************************************************)
\* what the provider appends to the return URL: &paymentId=..&PayerID=..
Redirected(returnUrl, paymentId, payerId) ==
  returnUrl \o <<38>> \o K_paymentId \o <<61>> \o QsEscape(paymentId)
            \o <<38>> \o K_PayerID \o <<61>> \o QsEscape(payerId)

\* the handler of server.get('approvalComplete', ...), as the effects it has
\* in their order: executePayment(req.params) issues its provider calls,
\* then res.send(200); an exception leaves the handler before the response
approvalCompleteRespondFirst(parameters) ==
  LET r == executePayment(parameters)
  IN  [threw |-> r.threw, error |-> r.error, calls |-> r.calls,
       effects |-> <<"res.send(200)">>
                     \o [i \in 1..Len(r.calls) |-> "paypal.payment.execute"]]

approvalComplete(parameters) ==
  LET r == executePayment(parameters)
  IN  [threw |-> r.threw, error |-> r.error, calls |-> r.calls,
       effects |-> [i \in 1..Len(r.calls) |-> "paypal.payment.execute"]
                     \o (IF r.threw THEN <<>> ELSE <<"res.send(200)">>)]

ApprovalComplete(params, origin) ==
  /\ ~crashed
  /\ Len(requests) < MaxRequests
  /\ LET r == approvalComplete(params)
     IN  /\ Uncaught(r.threw)
         /\ requests' = Append(requests,
               [params   |-> params,
                origin   |-> origin,
                threw    |-> r.threw,
                error    |-> r.error,
                calls    |-> Issued(r.calls, Len(requests) + 1),
                events   |-> r.effects,
                response |-> IF \E e \in 1..Len(r.effects) :
                                  r.effects[e] = "res.send(200)" THEN "200"
                             ELSE IF crashed' THEN "none" ELSE "500"])
  /\ UNCHANGED <<configuration, dialog, begun, answers, payments, outbox,
                 codec>>

\* the user follows the approval link of the payment created by the k-th
\* create call and approves: the provider redirects the browser to the
\* return URL of that call
UserApproves(k) ==
  /\ payments[k].result = "ok"
  /\ SentBy(CreateOf(k)) # {}
  /\ ApprovalComplete(
       ParamsOf(QueryOf(Redirected(
         payments[k].json.redirect_urls.return_url, PaymentIdOf(k), <<88>>))),
       k)

\* the correlation parameters, which a request can leave out
Fields == {"conversationId", "channelId", "userId", "botServiceUrl"}

\* requests that anyone can send, under the exports conf: the parameters of
\* a return URL with an empty PayerID, as they are, or with one parameter
\* missing, or with a botServiceUrl that is no percent-encoding
OtherParamsFor(conf) ==
  LET base(c) == ParamsOf(QueryOf(Redirected(
                   createReturnUrl(conf, AddressOf(c)), <<80, 57>>, <<>>)))
  IN  {base(c) : c \in Conversations}
        \cup {[base(1) EXCEPT ![f] = Undefined] : f \in Fields}
        \cup {[base(1) EXCEPT !["botServiceUrl"] = <<37>>]}

OtherParams == [conf \in Configurations |-> OtherParamsFor(conf)]

OtherRequest(params) == ApprovalComplete(params, 0)

(***************************************************************************)
(* The process.                                                            *)
(***************************************************************************)
NoCodec == [phase |-> "off"]

Init ==
  /\ configuration = DefaultConfiguration
  /\ dialog = [c \in Conversations |-> "idle"]
  /\ begun = 0
  /\ answers = <<>>
  /\ payments = <<>>
  /\ requests = <<>>
  /\ outbox = {}
  /\ crashed = FALSE
  /\ codec = NoCodec

Next ==
  \/ \E c \in Conversations : ReceiveMessage(c)
  \/ \E c \in Conversations, e \in {"Pay fine", "Cancel"} : AnswerPrompt(c, e)
  \/ \E k \in 1..Len(payments), error \in BOOLEAN, rels \in LinkLists :
       CreateResponds(k, error, rels)
  \/ \E j \in 1..Len(requests) : \E i \in 1..Len(requests[j].calls),
        error \in BOOLEAN : ExecuteResponds(j, i, error)
  \/ \E k \in 1..Len(payments) : UserApproves(k)
  \/ \E params \in OtherParams[configuration] : OtherRequest(params)

Spec == Init /\ [][Next]_vars

(***************************************************************************)
(* The correlation codec on its own: an address is encoded into a return   *)
(* URL, the provider redirects to it, the request is parsed, and           *)
(* executePayment recovers the address.                                    *)
(***************************************************************************)
\* characters of the addresses drawn: ? & % = + 2 5
Alphabet == {63, 38, 37, 61, 43, 50, 53}

\* the strings over Alphabet of length at most n
Strings(n) == UNION {[1..k -> Alphabet] : k \in 0..n}

\* the addresses drawn: any serviceUrl, identifiers built on a character
CodecAddresses ==
  {[id           |-> t,
    channelId    |-> <<116>> \o t,
    user         |-> [id |-> t \o <<117>>],
    conversation |-> [id |-> t \o t],
    serviceUrl   |-> s] : s \in Strings(MaxLen), t \in Strings(1)}

InitCodec ==
  /\ configuration \in Configurations
  /\ dialog = [c \in Conversations |-> "idle"]
  /\ begun = 0
  /\ answers = <<>>
  /\ payments = <<>>
  /\ requests = <<>>
  /\ outbox = {}
  /\ crashed = FALSE
  /\ codec \in {[phase |-> "input", address |-> a] : a \in CodecAddresses}

\* createAndSendPayment builds the return URL
CodecEncode ==
  /\ codec.phase = "input"
  /\ codec' = [phase     |-> "encoded",
               address   |-> codec.address,
               returnUrl |-> createReturnUrl(configuration, codec.address)]
  /\ UNCHANGED <<configuration, dialog, begun, answers, payments, requests,
                 outbox, crashed>>

\* the provider redirects to the return URL; the query parser fills req.params
CodecRedirect ==
  /\ codec.phase = "encoded"
  /\ codec' = [phase     |-> "redirected",
               address   |-> codec.address,
               returnUrl |-> codec.returnUrl,
               params    |-> ParamsOf(QueryOf(Redirected(
                               codec.returnUrl, PaymentIdOf(1), <<88>>)))]
  /\ UNCHANGED <<configuration, dialog, begun, answers, payments, requests,
                 outbox, crashed>>

\* executePayment reads req.params
CodecDecode ==
  /\ codec.phase = "redirected"
  /\ codec' = [phase     |-> "decoded",
               address   |-> codec.address,
               returnUrl |-> codec.returnUrl,
               params    |-> codec.params,
               executed  |-> executePayment(codec.params)]
  /\ UNCHANGED <<configuration, dialog, begun, answers, payments, requests,
                 outbox, crashed>>

NextCodec == CodecEncode \/ CodecRedirect \/ CodecDecode

SpecCodec == InitCodec /\ [][NextCodec]_vars

(***************************************************************************)
(* Properties.                                                             *)
(***************************************************************************)
\* TRUE when message m is addressed to the conversation of address a
AddressedTo(m, a) ==
  /\ m.address.channelId = a.channelId
  /\ m.address.user.id = a.user.id
  /\ m.address.conversation.id = a.conversation.id
  /\ m.address.serviceUrl = a.serviceUrl

\* the address of the session that issued the k-th create call
InitiatorOf(k) == AddressOf(answers[payments[k].by].conversation)

\* TRUE when an execute call of the j-th request succeeded
Executed(j) ==
  \E i \in 1..Len(requests[j].calls) : requests[j].calls[i].result = "ok"

\* C1: when the approval callback carries the query of the return URL that
\* createReturnUrl built for a payment and the execute call succeeds, a
\* confirmation is sent, and every message the callback sends is addressed to
\* the channelId, user id, conversation id and serviceUrl of the conversation
\* that initiated the payment.
EndToEndCorrelation ==
  \A j \in 1..Len(requests) :
    requests[j].origin > 0 =>
      /\ Executed(j) => SentBy(ExecuteOf(j)) # {}
      /\ \A m \in SentBy(ExecuteOf(j)) :
           /\ m.via = "bot"
           /\ AddressedTo(m, InitiatorOf(requests[j].origin))

\* the callback of a payment was executed and its confirmation sent
EndToEndCorrelationWitness ==
  \E j \in 1..Len(requests) :
    /\ requests[j].origin > 0
    /\ Executed(j)
    /\ \E m \in SentBy(ExecuteOf(j)) :
         AddressedTo(m, InitiatorOf(requests[j].origin))

\* TRUE when requests j1 and j2 carry the same correlation parameters
SameCorrelation(j1, j2) ==
  \A f \in Fields : requests[j1].params[f] = requests[j2].params[f]

\* C2: two callbacks with equal conversationId, userId, channelId and
\* botServiceUrl have their confirmations sent to the same address, whatever
\* their other parameters, their origin and the requests and payments
\* handled before them.
AddressFromCorrelationOnly ==
  \A j1 \in 1..Len(requests), j2 \in 1..Len(requests) :
    SameCorrelation(j1, j2) =>
      \A m1 \in SentBy(ExecuteOf(j1)), m2 \in SentBy(ExecuteOf(j2)) :
        m1.address = m2.address

\* a callback redirected by the provider and a request sent by someone else,
\* with different paymentId and PayerID, were both confirmed
AddressFromCorrelationOnlyWitness ==
  \E j1 \in 1..Len(requests), j2 \in 1..Len(requests) :
    /\ SameCorrelation(j1, j2)
    /\ requests[j1].origin > 0
    /\ requests[j2].origin = 0
    /\ requests[j1].params.PayerID # requests[j2].params.PayerID
    /\ requests[j1].params.paymentId # requests[j2].params.paymentId
    /\ SentBy(ExecuteOf(j1)) # {}
    /\ SentBy(ExecuteOf(j2)) # {}

\* C3: decoding, as executePayment does on the parsed callback query, the
\* query of the URL that createReturnUrl produced for an address yields the
\* addressId, conversation id, user id, channelId and serviceUrl of that
\* address, also when the serviceUrl contains '?', '&' or '%'.
RoundTrip ==
  codec.phase = "decoded" =>
    /\ ~codec.executed.threw
    /\ Len(codec.executed.calls) = 1
    /\ LET decoded == codec.executed.calls[1].closure
       IN  /\ decoded.addressId = codec.address.id
           /\ decoded.conversationId = codec.address.conversation.id
           /\ decoded.userId = codec.address.user.id
           /\ decoded.channelId = codec.address.channelId
           /\ decoded.botServiceUrl = codec.address.serviceUrl

\* the serviceUrl "?&%" went through the round trip
RoundTripWitness ==
  /\ codec.phase = "decoded"
  /\ codec.address.serviceUrl = <<63, 38, 37>>
  /\ Len(codec.executed.calls) = 1
  /\ codec.executed.calls[1].closure.botServiceUrl = <<63, 38, 37>>

\* TRUE when decodeURIComponent throws on the botServiceUrl of params
Malformed(params) == DecodeURIComponent(params.botServiceUrl) = URIError

\* number of execute calls of the j-th request that succeeded
Succeeded(j) ==
  Cardinality({i \in 1..Len(requests[j].calls) :
                 requests[j].calls[i].result = "ok"})

\* TRUE when every message from the j-th request is the confirmation, and
\* there is one for each execute call that succeeded: none while the call is
\* pending, none when it failed
ConfirmedIffExecuted(j) ==
  /\ Cardinality(SentBy(ExecuteOf(j))) = Succeeded(j)
  /\ \A m \in SentBy(ExecuteOf(j)) :
       m.via = "bot" /\ m.text = <<"Thanks for your payment!">>

\* C5 as stated: every callback makes exactly one provider execute call, and
\* sends exactly one confirmation if and only if that call succeeds.
OneExecuteCallPerCallback ==
  \A j \in 1..Len(requests) :
    Len(requests[j].calls) = 1 /\ ConfirmedIffExecuted(j)

\* C5 amended: a callback makes exactly one provider execute call when its
\* botServiceUrl parameter decodes and none when decodeURIComponent throws on
\* it; it sends exactly one confirmation if and only if that call succeeds,
\* never before the provider reports success and none when execute fails.
ExecuteCallsAndConfirmations ==
  \A j \in 1..Len(requests) :
    /\ Len(requests[j].calls) = IF Malformed(requests[j].params) THEN 0 ELSE 1
    /\ ConfirmedIffExecuted(j)

\* one callback was executed and confirmed once, another one failed at the
\* provider and sent nothing
ExecuteCallsAndConfirmationsWitness ==
  \E j1 \in 1..Len(requests), j2 \in 1..Len(requests) :
    /\ Len(requests[j1].calls) = 1
    /\ requests[j1].calls[1].result = "ok"
    /\ Cardinality(SentBy(ExecuteOf(j1))) = 1
    /\ Len(requests[j2].calls) = 1
    /\ requests[j2].calls[1].result = "error"
    /\ SentBy(ExecuteOf(j2)) = {}

\* the prompt answers that started a payment
PayAnswers == {n \in 1..Len(answers) : answers[n].entity # "Cancel"}

\* number of links with rel "approval_url" in the response to the k-th create
ApprovalLinks(k) ==
  Cardinality({i \in 1..Len(payments[k].links) :
                 payments[k].links[i].rel = "approval_url"})

\* TRUE when every createAndSendPayment made exactly one create call
OneCreateCall ==
  /\ \A n \in PayAnswers :
       Cardinality({k \in 1..Len(payments) : payments[k].by = n}) = 1
  /\ \A k \in 1..Len(payments) : payments[k].by \in PayAnswers

\* C6 as stated: one create call, and exactly one message for every
\* successful create response, none on failure.
OneApprovalMessagePerCreate ==
  /\ OneCreateCall
  /\ \A k \in 1..Len(payments) :
       Cardinality(SentBy(CreateOf(k))) =
         IF payments[k].result = "ok" THEN 1 ELSE 0

\* C6 amended: createAndSendPayment makes exactly one create call; when it
\* succeeds, the initiating session is sent one approval message for each
\* link with rel "approval_url" in the response (exactly one when there is
\* exactly one such link); when it fails or is pending, no message is sent.
ApprovalMessagePerApprovalLink ==
  /\ OneCreateCall
  /\ \A k \in 1..Len(payments) :
       /\ Cardinality(SentBy(CreateOf(k))) = ApprovalLinks(k)
       /\ payments[k].result # "ok" => SentBy(CreateOf(k)) = {}
       /\ \A m \in SentBy(CreateOf(k)) :
            m.via = "session" /\ m.address = InitiatorOf(k)

\* a create response with one approval link among two links was answered
\* with one message
ApprovalMessagePerApprovalLinkWitness ==
  \E k \in 1..Len(payments) :
    /\ payments[k].result = "ok"
    /\ Len(payments[k].links) = 2
    /\ ApprovalLinks(k) = 1
    /\ Cardinality(SentBy(CreateOf(k))) = 1

\* C7: when the create call succeeds with no "approval_url" link, no approval
\* message is sent and a NoApprovalLink error is reported.
NoApprovalLinkReported ==
  \A k \in 1..Len(payments) :
    (payments[k].result = "ok" /\ ApprovalLinks(k) = 0) =>
      /\ SentBy(CreateOf(k)) = {}
      /\ payments[k].error = "NoApprovalLink"

\* C8: a callback lacking conversationId, userId, channelId or botServiceUrl
\* is rejected with MissingField: no execute call is made for it and no
\* confirmation is addressed with an absent field.
MissingFieldRejected ==
  /\ \A j \in 1..Len(requests) :
       (\E f \in Fields : requests[j].params[f] = Undefined) =>
         /\ requests[j].error = "MissingField"
         /\ requests[j].calls = <<>>
  /\ \A m \in outbox :
       m.via = "bot" =>
         /\ m.address.channelId # Undefined
         /\ m.address.user.id # Undefined
         /\ m.address.conversation.id # Undefined
         /\ m.address.serviceUrl # UndefinedStr

\* C9: a callback whose botServiceUrl fails its decode pass yields the error
\* value MalformedEncoding without an exception: no execute call is made and
\* no confirmation is sent.
MalformedEncodingReported ==
  \A j \in 1..Len(requests) :
    Malformed(requests[j].params) =>
      /\ ~requests[j].threw
      /\ requests[j].error = "MalformedEncoding"
      /\ requests[j].calls = <<>>
      /\ SentBy(ExecuteOf(j)) = {}

\* C10: every GET approvalComplete request is answered with HTTP 200.
AlwaysAnswered200 ==
  \A j \in 1..Len(requests) : requests[j].response = "200"

\* the conversation ids of the operations with a provider call in flight
\* (a request that names no conversation belongs to none)
InFlightConversations ==
  ({payments[k].closure.session.message.address.conversation.id :
      k \in {n \in 1..Len(payments) : payments[n].result = "pending"}}
   \cup
   {requests[j].params.conversationId :
      j \in {n \in 1..Len(requests) :
               \E i \in 1..Len(requests[n].calls) :
                 requests[n].calls[i].result = "pending"}})
  \ {Undefined}

\* the conversation ids of the operations that take the step: the calls that
\* are answered and the request that arrives
SteppingConversations ==
  {payments[k].closure.session.message.address.conversation.id :
     k \in {n \in 1..Len(payments) : payments'[n].result # payments[n].result}}
  \cup
  {requests[j].params.conversationId :
     j \in {n \in 1..Len(requests) : requests'[n] # requests[n]}}
  \cup
  (IF Len(requests') > Len(requests)
   THEN {requests'[Len(requests')].params.conversationId} ELSE {})

\* TRUE when, among the messages ob, each approval link is addressed to the
\* session that initiated its create call and each confirmation to the
\* address carried by the parameters of its own callback
OwnDestinations(as, ps, rs, ob) ==
  \A m \in ob :
    /\ m.by[1] = "create" =>
         m.address = AddressOf(as[ps[m.by[2]].by].conversation)
    /\ m.by[1] = "execute" =>
         LET params == rs[m.by[2]].params
         IN  /\ m.address.channelId = params.channelId
             /\ m.address.user.id = params.userId
             /\ m.address.conversation.id = params.conversationId
             /\ m.address.serviceUrl =
                  DecodeURIComponent(params.botServiceUrl)

\* C4: in every interleaving, each approval link goes to the session that
\* initiated its create call, each confirmation goes to the address carried
\* by its own callback's parameters, and no step of an operation ends the
\* process while an operation of another conversation is in flight, which
\* would change that operation's outcome.
NonInterference ==
  [][/\ OwnDestinations(answers', payments', requests', outbox')
     /\ crashed' => InFlightConversations' \subseteq SteppingConversations]_vars

(***************************************************************************)
(* The response of GET approvalComplete and the execute call.              *)
(***************************************************************************)
\* positions of the event e in the events of the request r
EventsAt(r, e) == {p \in 1..Len(r.events) : r.events[p] = e}

\* TRUE when the request r was answered 200 once, after an execute call was
\* issued and before any result of a call was delivered
RespondedBetween(r) ==
  /\ r.response = "200"
  /\ Cardinality(EventsAt(r, "res.send(200)")) = 1
  /\ \A p \in EventsAt(r, "res.send(200)") :
       /\ \E q \in EventsAt(r, "paypal.payment.execute") : q < p
       /\ \A q \in EventsAt(r, "callback") : p < q

NeverCrashed == ~crashed

\* TRUE when, in the state (ps, rs, ob), a failed create call is the only
\* call of its prompt answer and has no message, and a failed execute call
\* is the only call of its request and has no message
FailedAttemptsQuiet(ps, rs, ob) ==
  /\ \A k \in 1..Len(ps) :
       ps[k].result = "error" =>
         /\ {n \in 1..Len(ps) : ps[n].by = ps[k].by} = {k}
         /\ {m \in ob : m.by = <<"create", k>>} = {}
  /\ \A j \in 1..Len(rs) :
       (\E i \in 1..Len(rs[j].calls) : rs[j].calls[i].result = "error") =>
         /\ Len(rs[j].calls) = 1
         /\ {m \in ob : m.by = <<"execute", j>>} = {}

\* C13: a failed attempt is terminal and is not retried: once the provider
\* has answered a create or execute call with an error, no step changes
\* that call, issues another call for it or sends a message for it.
FailedIsTerminal ==
  [][/\ FailedAttemptsQuiet(payments', requests', outbox')
     /\ \A k \in 1..Len(payments) :
          payments[k].result = "error" => payments'[k] = payments[k]
     /\ \A j \in 1..Len(requests) :
          (\E i \in 1..Len(requests[j].calls) :
              requests[j].calls[i].result = "error")
            => requests'[j] = requests[j]]_vars

\* a create call failed and, the process going on, an execute call failed
FailedIsTerminalWitness ==
  /\ ~crashed
  /\ \E k \in 1..Len(payments) : payments[k].result = "error"
  /\ \E j \in 1..Len(requests) :
       /\ Len(requests[j].calls) = 1
       /\ requests[j].calls[1].result = "error"

SameParameters(j) ==
  {n \in 1..Len(requests) : requests[n].params = requests[j].params}

\* the execute calls issued by the requests ns, and those that succeeded
ExecuteCallsOf(ns) ==
  UNION {{<<n, i>> : i \in 1..Len(requests[n].calls)} : n \in ns}

ExecutedOkOf(ns) ==
  {c \in ExecuteCallsOf(ns) : requests[c[1]].calls[c[2]].result = "ok"}

\* the confirmations sent for the requests ns
ConfirmationsOf(ns) ==
  {m \in outbox : m.by[1] = "execute" /\ m.by[2] \in ns}

\* C15 as stated: the parameters of a return URL are consumed once: at most
\* one execute call and at most one confirmation result from them, however
\* often the callback with these parameters arrives.
TokenConsumedOnce ==
  \A j \in 1..Len(requests) :
    /\ Cardinality(ExecuteCallsOf(SameParameters(j))) <= 1
    /\ Cardinality(ConfirmationsOf(SameParameters(j))) <= 1

\* C15, amended: the parameters of a return URL are consumed once per
\* arrival: when they decode, each arrival of the callback issues one
\* execute call of its own, and as many confirmations are sent as these
\* calls succeeded, one per arrival at most.
TokenConsumedPerArrival ==
  \A j \in 1..Len(requests) :
    /\ \A n \in SameParameters(j) : Len(requests[n].calls) <= 1
    /\ ~Malformed(requests[j].params) =>
         Cardinality(ExecuteCallsOf(SameParameters(j)))
           = Cardinality(SameParameters(j))
    /\ Cardinality(ConfirmationsOf(SameParameters(j)))
         = Cardinality(ExecutedOkOf(SameParameters(j)))

\* the callback of one approved payment arrived twice: two execute calls
\* succeeded and two confirmations were sent
TokenConsumedPerArrivalWitness ==
  \E j \in 1..Len(requests) :
    /\ requests[j].origin # 0
    /\ Cardinality(SameParameters(j)) = 2
    /\ Cardinality(ExecutedOkOf(SameParameters(j))) = 2
    /\ Cardinality(ConfirmationsOf(SameParameters(j))) = 2

(***************************************************************************)
(* The request builders.                                                   *)
(***************************************************************************)
\* the execute calls issued so far, as pairs of request and call index
ExecuteCalls == ExecuteCallsOf(1..Len(requests))

\* C16: the currency and the total of every execute request equal the
\* currency and the total of the transaction amount of every create
\* request, whatever the payer id and the return URL.
AmountConsistency ==
  \A k \in 1..Len(payments) : \A c \in ExecuteCalls :
    LET created  == payments[k].json.transactions[1].amount
        executed == requests[c[1]].calls[c[2]].json.transactions[1].amount
    IN  /\ executed.currency = created.currency
        /\ executed.total = created.total

\* a create request was followed by execute requests for an empty and for a
\* non-empty payer id
AmountConsistencyWitness ==
  /\ payments # <<>>
  /\ \E c \in ExecuteCalls : requests[c[1]].calls[c[2]].json.payer_id = <<>>
  /\ \E c \in ExecuteCalls : requests[c[1]].calls[c[2]].json.payer_id # <<>>

\* C17: a callback whose PayerID is the empty string still gets an execute
\* request of the full shape: payer_id present and equal to the empty
\* string, and one transaction whose amount has a currency and a total.
EmptyPayerIdAccepted ==
  \A j \in 1..Len(requests) :
    (requests[j].params.PayerID = <<>> /\ ~Malformed(requests[j].params)) =>
      /\ Len(requests[j].calls) = 1
      /\ LET json == requests[j].calls[1].json
         IN  /\ DOMAIN json = {"payer_id", "transactions"}
             /\ json.payer_id = requests[j].params.PayerID
             /\ Len(json.transactions) = 1
             /\ DOMAIN json.transactions[1] = {"amount"}
             /\ DOMAIN json.transactions[1].amount = {"currency", "total"}

\* the execute call of a callback with an empty PayerID was issued and
\* answered by the provider
EmptyPayerIdAcceptedWitness ==
  \E j \in 1..Len(requests) :
    /\ requests[j].params.PayerID = <<>>
    /\ Len(requests[j].calls) = 1
    /\ requests[j].calls[1].json.payer_id = <<>>
    /\ requests[j].calls[1].result = "ok"

(***************************************************************************)
(* The return URL and the approval messages.                               *)
(***************************************************************************)
\* http://<host>:<port>/approvalComplete? for the exports conf
BaseUrl(conf) ==
  <<104, 116, 116, 112, 58, 47, 47>> \o conf.HOST \o <<58>> \o conf.PORT
    \o <<47, 97, 112, 112, 114, 111, 118, 97, 108, 67, 111, 109, 112, 108,
         101, 116, 101, 63>>

\* C19: for every configured host and port, the return URL has the
\* configured host as its host, the configured port as its port and
\* approvalComplete as its path.
ReturnUrlFromConfiguration ==
  codec.phase \in {"encoded", "redirected", "decoded"} =>
    /\ Len(codec.returnUrl) >= Len(BaseUrl(configuration))
    /\ SubSeq(codec.returnUrl, 1, Len(BaseUrl(configuration)))
         = BaseUrl(configuration)

\* C20: when a create call has succeeded, the messages of its callback are
\* exactly one "Please pay your fine: <href>" to the initiating session for
\* each entry of payment.links whose rel is "approval_url", sent in the
\* order of the entries; there are as many as such entries.
ApprovalMessagesInLinkOrder ==
  \A k \in 1..Len(payments) :
    payments[k].result = "ok" =>
      LET links     == payments[k].links
          approvals == {i \in 1..Len(links) : links[i].rel = "approval_url"}
          rank(i)   == Cardinality({h \in approvals : h <= i})
      IN  SentBy(CreateOf(k)) =
            {[via     |-> "session",
              address |-> InitiatorOf(k),
              text    |-> <<"Please pay your fine: ", links[i].href>>,
              by      |-> CreateOf(k),
              seq     |-> rank(i)] : i \in approvals}

\* a create response with two approval links was answered with two
\* messages, the first entry's href first
ApprovalMessagesInLinkOrderWitness ==
  \E k \in 1..Len(payments) :
    /\ payments[k].result = "ok"
    /\ Len(payments[k].links) = 2
    /\ \A i \in 1..2 :
         /\ payments[k].links[i].rel = "approval_url"
         /\ \E m \in SentBy(CreateOf(k)) :
              m.seq = i /\ m.text[2] = payments[k].links[i].href

====
